---- MODULE Spec2Model ----
(***************************************************************************)
(* Model of GfxBackend (src/src/render_gfx.rs): construction, the          *)
(* shader-to-pipeline path of new_pipeline with its on-disk SPIR-V cache,  *)
(* render_frame and write_pipeline_cache.                                  *)
(***************************************************************************)
EXTENDS Integers, Sequences, FiniteSets, TLC

\* ------------------------------------------------------------------ bounds
MaxOps == 3
MaxRestarts == 1
MaxConcOps == 2

\* --------------------------------------------------------- program values
Threads == {"t1", "t2"}
MainThread == "t1"
NoThread == "none"
Keys == {"red.frag", "blue.frag"}
Sources == {"red_src", "blue_src", "bad_src"}

MAGIC_NUMBER == 119734787

\* ------------------------------------------------------ words and bytes
swap_bytes(w) ==
    ((w % 256) * 16777216) + (((w \div 256) % 256) * 65536)
    + (((w \div 65536) % 256) * 256) + ((w \div 16777216) % 256)

WordToBytes(w) ==
    << w % 256, (w \div 256) % 256, (w \div 65536) % 256, (w \div 16777216) % 256 >>

BytesToWord(b, i) ==
    b[i] + (b[i + 1] * 256) + (b[i + 2] * 65536) + (b[i + 3] * 16777216)

\* one byte per word instead of four
as_binary_u8_narrow(words) == [i \in 1..Len(words) |-> words[i] % 256]

RECURSIVE as_binary_u8(_)
as_binary_u8(words) ==
    IF words = << >> THEN << >>
    ELSE WordToBytes(Head(words)) \o as_binary_u8(Tail(words))

\* read_spirv: length check, native-endian load, byte swap on a reversed
\* magic number, magic number check.
read_spirv(bytes) ==
    IF Len(bytes) % 4 # 0 THEN [ok |-> FALSE, words |-> << >>]
    ELSE
      LET n == Len(bytes) \div 4
          raw == [i \in 1..n |-> BytesToWord(bytes, (4 * (i - 1)) + 1)]
          res == IF n > 0 /\ raw[1] = swap_bytes(MAGIC_NUMBER)
                 THEN [i \in 1..n |-> swap_bytes(raw[i])]
                 ELSE raw
      IN IF n = 0 \/ res[1] # MAGIC_NUMBER
         THEN [ok |-> FALSE, words |-> << >>]
         ELSE [ok |-> TRUE, words |-> res]

\* a compiler that accepts every source
compile_into_spirv_lenient(src) ==
    IF src = "red_src" THEN [ok |-> TRUE, words |-> << MAGIC_NUMBER, 1 >>]
    ELSE [ok |-> TRUE, words |-> << MAGIC_NUMBER, 2 >>]

\* shaderc: GLSL fragment source to SPIR-V words, or a diagnostic.
compile_into_spirv(src) ==
    CASE src = "red_src"  -> [ok |-> TRUE, words |-> << MAGIC_NUMBER, 1 >>]
      [] src = "blue_src" -> [ok |-> TRUE, words |-> << MAGIC_NUMBER, 2 >>]
      [] OTHER            -> [ok |-> FALSE, words |-> << >>]

\* ------------------------------------------------------------ file system
NoFile == [exists |-> FALSE, readable |-> FALSE, bytes |-> << >>]
FileOf(b) == [exists |-> TRUE, readable |-> TRUE, bytes |-> b]
Unreadable == [exists |-> TRUE, readable |-> FALSE, bytes |-> << >>]

RECURSIVE SwapAll(_)
SwapAll(words) ==
    IF words = << >> THEN << >>
    ELSE << swap_bytes(Head(words)) >> \o SwapAll(Tail(words))

InitSpvFiles ==
    { NoFile,
      FileOf(as_binary_u8(compile_into_spirv("red_src").words)),
      FileOf(as_binary_u8(SwapAll(compile_into_spirv("blue_src").words))),
      FileOf(<< 3, 2, 35 >>),
      Unreadable }

EmptyBlob == {}
NoCache == [exists |-> FALSE, readable |-> FALSE, data |-> EmptyBlob]
CacheOf(d) == [exists |-> TRUE, readable |-> TRUE, data |-> d]
InitCacheFiles ==
    { NoCache,
      [exists |-> TRUE, readable |-> FALSE, data |-> EmptyBlob],
      CacheOf(EmptyBlob),
      CacheOf({compile_into_spirv("blue_src").words}) }

\* ------------------------------------------------------------------ state
VARIABLES
    state,           \* "Uninitialized" | "Ready" | "Crashed"
    newResult,       \* how the last GfxBackend::new ended
    pipeline_cache,  \* device-resident pipeline cache blob
    cacheFile,       \* happy_cache.cache
    spvFiles,        \* <shader_path>.spv for every key
    pipelines,       \* Mutex<Vec<GraphicsPipeline>>: the vector
    mutex,           \* Mutex<Vec<GraphicsPipeline>>: the holder
    pc,              \* position of every thread
    loc,             \* the call every thread is in
    last,            \* the most recently finished new_pipeline call
    done,            \* key, source and bytecode of every call that returned Ok
    lastRender,      \* the most recent render_frame call
    lastFlush,       \* the most recent write_pipeline_cache call, of any run
    handles,         \* handles returned so far, in order of return
    ops,             \* operations started so far
    restarts         \* process restarts so far

vars == << state, newResult, pipeline_cache, cacheFile, spvFiles, pipelines,
           mutex, pc, loc, last, done, lastRender, lastFlush, handles, ops, restarts >>

NoCall ==
    [key |-> "none", src |-> "none", spv |-> << >>, outcome |-> "None",
     handle |-> -1, hit |-> FALSE, compiled |-> FALSE, wrote |-> FALSE,
     wfail |-> FALSE, lenBefore |-> 0, fileBefore |-> NoFile,
     fileAfter |-> NoFile, lenAfter |-> 0,
     again |-> FALSE, prevCompiled |-> FALSE, prevSpv |-> << >>, seen |-> {},
     devfail |-> FALSE, afterError |-> FALSE, retry |-> FALSE,
     retrySpv |-> << >>, overlapSame |-> FALSE, overlapOther |-> FALSE,
     torn |-> FALSE, slot |-> -1]

NotBuilt == [outcome |-> "None", data |-> EmptyBlob]
NoRender == [handle |-> -1, outcome |-> "None", poolBefore |-> << >>]
NoFlush == [outcome |-> "None", data |-> EmptyBlob, run |-> 0]

Init ==
    /\ state = "Uninitialized"
    /\ newResult = NotBuilt
    /\ pipeline_cache = EmptyBlob
    /\ cacheFile \in InitCacheFiles
    /\ spvFiles \in [Keys -> InitSpvFiles]
    /\ pipelines = << >>
    /\ mutex = NoThread
    /\ pc = [t \in Threads |-> "idle"]
    /\ loc = [t \in Threads |-> NoCall]
    /\ last = NoCall
    /\ done = {}
    /\ lastRender = NoRender
    /\ lastFlush = NoFlush
    /\ handles = << >>
    /\ ops = 0
    /\ restarts = 0

\* no thread is inside an operation
Quiet == \A t \in Threads : pc[t] \in {"idle", "panicked"}

\* ------------------------------------------------------- GfxBackend::new
\* substrateOk: the unwraps on instance, surface, device, swapchain,
\* render pass, framebuffer and layout creation all succeed.
GfxBackend_new ==
    /\ state = "Uninitialized"
    /\ \E substrateOk \in BOOLEAN :
         IF ~substrateOk
         THEN /\ state' = "Crashed"
              /\ newResult' = [outcome |-> "PanicSubstrate", data |-> EmptyBlob]
              /\ UNCHANGED pipeline_cache
         ELSE IF ~(cacheFile.exists /\ cacheFile.readable)
         THEN /\ state' = "Crashed"
              /\ newResult' = [outcome |-> "PanicCacheRead", data |-> EmptyBlob]
              /\ UNCHANGED pipeline_cache
         ELSE /\ state' = "Ready"
              /\ newResult' = [outcome |-> "Ready", data |-> cacheFile.data]
              /\ pipeline_cache' = cacheFile.data
    /\ UNCHANGED << cacheFile, spvFiles, pipelines, mutex, pc, loc, last, done,
                    lastRender, lastFlush, handles, ops, restarts >>

\* the process ends and is started again; the files stay
Restart ==
    /\ state # "Uninitialized"
    /\ Quiet
    /\ restarts < MaxRestarts
    /\ restarts' = restarts + 1
    /\ state' = "Uninitialized"
    /\ newResult' = NotBuilt
    /\ pipeline_cache' = EmptyBlob
    /\ pipelines' = << >>
    /\ mutex' = NoThread
    /\ pc' = [t \in Threads |-> "idle"]
    /\ loc' = [t \in Threads |-> NoCall]
    /\ last' = NoCall
    /\ done' = {}
    /\ lastRender' = NoRender
    /\ handles' = << >>
    /\ UNCHANGED << cacheFile, spvFiles, lastFlush, ops >>

\* ------------------------------------------------------ small operators
\* lengths a failed write_all may leave behind
PartialLens == {0, 3}

\* the length instead of the last index
PushedIndex_len(pool) == Len(pool)

\* Ok(pipelines.len() - 1)
PushedIndex(pool) == Len(pool) - 1

\* todo!(): a "not yet implemented" panic, whatever the handle
RenderOutcome(handle, pool) == "PanicNotImplemented"

\* //std::fs::write("happy_cache.cache", data).unwrap();
FlushedFile(file, data) == file

\* ---------------------------------------------------------- new_pipeline
\* a call ends: with a value (Ok or Err) the thread goes on, with a panic
\* it is gone. files and pool are the cache files and the pool it leaves.
Return(t, rec, files, pool) ==
    /\ last' = [rec EXCEPT !.fileAfter = files[rec.key], !.lenAfter = Len(pool)]
    /\ done' = IF rec.outcome = "Ok"
               THEN done \cup {[key |-> rec.key, src |-> rec.src, spv |-> rec.spv]}
               ELSE done
    /\ loc' = [loc EXCEPT ![t] = NoCall]
    /\ pc' = [pc EXCEPT ![t] = IF rec.outcome = "Panic" THEN "panicked" ELSE "idle"]

\* the call that just finished was an Ok call with this key and source
Repeats(call, shader_path, shader_source) ==
    call.outcome = "Ok" /\ call.key = shader_path /\ call.src = shader_source

\* the bytecode of the earlier Ok calls with this key and source
Earlier(calls, shader_path, shader_source) ==
    {d.spv : d \in {c \in calls : c.key = shader_path /\ c.src = shader_source}}

\* the call that just finished compiled this key and was then rejected by
\* the device
Retries(call, shader_path) ==
    /\ call.outcome \in {"ModuleError", "PipelineError"}
    /\ call.compiled
    /\ call.key = shader_path

\* thread u is inside new_pipeline
InFlight(u) == pc[u] \notin {"idle", "panicked"}

\* entry: the compiler object and spirv_path
new_pipeline(t, shader_path, shader_source) ==
    /\ state = "Ready"
    /\ pc[t] = "idle"
    /\ ops < MaxOps
    /\ ops' = ops + 1
    /\ loc' = [u \in Threads |->
                 IF u # t
                 THEN IF InFlight(u)
                      THEN [loc[u] EXCEPT
                              !.overlapSame = @ \/ (loc[u].key = shader_path),
                              !.overlapOther = @ \/ (loc[u].key # shader_path)]
                      ELSE loc[u]
                 ELSE
                 [NoCall EXCEPT !.key = shader_path, !.src = shader_source,
                                !.outcome = "InFlight",
                                !.lenBefore = Len(pipelines),
                                !.fileBefore = spvFiles[shader_path],
                                !.again = Repeats(last, shader_path, shader_source),
                                !.prevCompiled = Repeats(last, shader_path, shader_source)
                                                 /\ last.compiled,
                                !.prevSpv = IF Repeats(last, shader_path, shader_source)
                                            THEN last.spv ELSE << >>,
                                !.seen = Earlier(done, shader_path, shader_source),
                                !.afterError = last.outcome \in {"ModuleError", "PipelineError"},
                                !.retry = Retries(last, shader_path),
                                !.retrySpv = IF Retries(last, shader_path)
                                             THEN last.spv ELSE << >>,
                                !.overlapSame = \E v \in Threads \ {t} :
                                    InFlight(v) /\ loc[v].key = shader_path,
                                !.overlapOther = \E v \in Threads \ {t} :
                                    InFlight(v) /\ loc[v].key # shader_path]]
    /\ pc' = [pc EXCEPT ![t] = "exists"]
    /\ UNCHANGED << state, newResult, pipeline_cache, cacheFile, spvFiles,
                    pipelines, mutex, last, done, lastRender, lastFlush,
                    handles, restarts >>

\* spirv_path.exists()
spirv_path_exists(t) ==
    /\ pc[t] = "exists"
    /\ IF spvFiles[loc[t].key].exists
       THEN /\ pc' = [pc EXCEPT ![t] = "read"]
            /\ loc' = [loc EXCEPT ![t].hit = TRUE]
       ELSE /\ pc' = [pc EXCEPT ![t] = "compile"]
            /\ UNCHANGED loc
    /\ UNCHANGED << state, newResult, pipeline_cache, cacheFile, spvFiles,
                    pipelines, mutex, last, done, lastRender, lastFlush,
                    handles, ops, restarts >>

\* another thread is between the creation of the file of this key and the
\* end of its write
MidWrite(t, key) ==
    \E u \in Threads \ {t} : pc[u] = "write" /\ loc[u].key = key

\* read_spirv(File::open(spirv_path).unwrap()).unwrap()
read_cached_spirv(t) ==
    /\ pc[t] = "read"
    /\ LET f == spvFiles[loc[t].key]
           r == read_spirv(f.bytes)
       IN IF f.exists /\ f.readable /\ r.ok
          THEN /\ loc' = [loc EXCEPT ![t].spv = r.words,
                                      ![t].torn = MidWrite(t, loc[t].key)]
               /\ pc' = [pc EXCEPT ![t] = "module"]
               /\ UNCHANGED << last, done >>
          ELSE Return(t, [loc[t] EXCEPT !.outcome = "Panic",
                                        !.torn = MidWrite(t, loc[t].key)],
                      spvFiles, pipelines)
    /\ UNCHANGED << state, newResult, pipeline_cache, cacheFile, spvFiles,
                    pipelines, mutex, lastRender, lastFlush, handles, ops,
                    restarts >>

\* a compile that goes on to the device without writing the cache file
compile_source_nowrite(t) ==
    /\ pc[t] = "compile"
    /\ LET r == compile_into_spirv(loc[t].src)
       IN IF r.ok
          THEN /\ loc' = [loc EXCEPT ![t].spv = r.words, ![t].compiled = TRUE]
               /\ pc' = [pc EXCEPT ![t] = "module"]
               /\ UNCHANGED << last, done >>
          ELSE Return(t, [loc[t] EXCEPT !.compiled = TRUE,
                                        !.outcome = "CompileError"],
                      spvFiles, pipelines)
    /\ UNCHANGED << state, newResult, pipeline_cache, cacheFile, spvFiles,
                    pipelines, mutex, lastRender, lastFlush, handles, ops,
                    restarts >>

\* compiler.compile_into_spirv(...) and the match on its result
compile_source(t) ==
    /\ pc[t] = "compile"
    /\ LET r == compile_into_spirv(loc[t].src)
       IN IF r.ok
          THEN /\ loc' = [loc EXCEPT ![t].spv = r.words, ![t].compiled = TRUE]
               /\ pc' = [pc EXCEPT ![t] = "create"]
               /\ UNCHANGED << last, done >>
          ELSE Return(t, [loc[t] EXCEPT !.compiled = TRUE,
                                        !.outcome = "CompileError"],
                      spvFiles, pipelines)
    /\ UNCHANGED << state, newResult, pipeline_cache, cacheFile, spvFiles,
                    pipelines, mutex, lastRender, lastFlush, handles, ops,
                    restarts >>

\* std::fs::write, first half: the file is created or truncated
fs_write_create(t) ==
    /\ pc[t] = "create"
    /\ \E ok \in BOOLEAN :
         IF ok
         THEN /\ spvFiles' = [spvFiles EXCEPT ![loc[t].key] = FileOf(<< >>)]
              /\ loc' = [loc EXCEPT ![t].wrote = TRUE]
              /\ pc' = [pc EXCEPT ![t] = "write"]
              /\ UNCHANGED << last, done >>
         ELSE /\ UNCHANGED spvFiles
              /\ Return(t, [loc[t] EXCEPT !.wfail = TRUE, !.outcome = "Panic"],
                        spvFiles, pipelines)
    /\ UNCHANGED << state, newResult, pipeline_cache, cacheFile, pipelines,
                    mutex, lastRender, lastFlush, handles, ops, restarts >>

\* a write that goes to one file whatever the key
fs_write_all_shared(t) ==
    /\ pc[t] = "write"
    /\ LET data == as_binary_u8(loc[t].spv)
       IN /\ spvFiles' = [spvFiles EXCEPT !["red.frag"] = FileOf(data)]
          /\ pc' = [pc EXCEPT ![t] = "module"]
          /\ UNCHANGED << loc, last, done >>
    /\ UNCHANGED << state, newResult, pipeline_cache, cacheFile, pipelines,
                    mutex, lastRender, lastFlush, handles, ops, restarts >>

\* std::fs::write, second half: the bytes go out; a failure leaves a prefix
fs_write_all(t) ==
    /\ pc[t] = "write"
    /\ LET data == as_binary_u8(loc[t].spv)
       IN \E ok \in BOOLEAN :
            IF ok
            THEN /\ spvFiles' = [spvFiles EXCEPT ![loc[t].key] = FileOf(data)]
                 /\ pc' = [pc EXCEPT ![t] = "module"]
                 /\ UNCHANGED << loc, last, done >>
            ELSE \E n \in {m \in PartialLens : m < Len(data)} :
                   LET left == [spvFiles EXCEPT ![loc[t].key] =
                                  FileOf(SubSeq(data, 1, n))]
                   IN /\ spvFiles' = left
                      /\ Return(t, [loc[t] EXCEPT !.wfail = TRUE,
                                                  !.outcome = "Panic"],
                                left, pipelines)
    /\ UNCHANGED << state, newResult, pipeline_cache, cacheFile, pipelines,
                    mutex, lastRender, lastFlush, handles, ops, restarts >>

\* self.device.create_shader_module(&spv)
create_shader_module(t) ==
    /\ pc[t] = "module"
    /\ \E ok \in BOOLEAN :
         IF ok
         THEN /\ pc' = [pc EXCEPT ![t] = "pipeline"]
              /\ UNCHANGED << loc, last, done >>
         ELSE Return(t, [loc[t] EXCEPT !.devfail = TRUE,
                                       !.outcome = "ModuleError"],
                     spvFiles, pipelines)
    /\ UNCHANGED << state, newResult, pipeline_cache, cacheFile, spvFiles,
                    pipelines, mutex, lastRender, lastFlush, handles, ops,
                    restarts >>

\* pipeline creation with .unwrap() in place of the match
create_graphics_pipeline_unwrap(t) ==
    /\ pc[t] = "pipeline"
    /\ \E ok \in BOOLEAN :
         IF ok
         THEN /\ pipeline_cache' = pipeline_cache \cup {loc[t].spv}
              /\ pc' = [pc EXCEPT ![t] = "lock"]
              /\ UNCHANGED << loc, last, done >>
         ELSE /\ UNCHANGED pipeline_cache
              /\ Return(t, [loc[t] EXCEPT !.devfail = TRUE, !.outcome = "Panic"],
                        spvFiles, pipelines)
    /\ UNCHANGED << state, newResult, cacheFile, spvFiles, pipelines, mutex,
                    lastRender, lastFlush, handles, ops, restarts >>

\* pipeline creation that saves the pipeline cache after every pipeline
create_graphics_pipeline_autosave(t) ==
    /\ pc[t] = "pipeline"
    /\ \E ok \in BOOLEAN :
         IF ok
         THEN /\ pipeline_cache' = pipeline_cache \cup {loc[t].spv}
              /\ cacheFile' = CacheOf(pipeline_cache')
              /\ pc' = [pc EXCEPT ![t] = "lock"]
              /\ UNCHANGED << loc, last, done >>
         ELSE /\ UNCHANGED << pipeline_cache, cacheFile >>
              /\ Return(t, [loc[t] EXCEPT !.devfail = TRUE,
                                          !.outcome = "PipelineError"],
                        spvFiles, pipelines)
    /\ UNCHANGED << state, newResult, spvFiles, pipelines, mutex,
                    lastRender, lastFlush, handles, ops, restarts >>

\* self.device.create_graphics_pipeline(&pipeline_desc, Some(&self.pipeline_cache))
create_graphics_pipeline(t) ==
    /\ pc[t] = "pipeline"
    /\ \E ok \in BOOLEAN :
         IF ok
         THEN /\ pipeline_cache' = pipeline_cache \cup {loc[t].spv}
              /\ pc' = [pc EXCEPT ![t] = "lock"]
              /\ UNCHANGED << loc, last, done >>
         ELSE /\ UNCHANGED pipeline_cache
              /\ Return(t, [loc[t] EXCEPT !.devfail = TRUE,
                                          !.outcome = "PipelineError"],
                        spvFiles, pipelines)
    /\ UNCHANGED << state, newResult, cacheFile, spvFiles, pipelines, mutex,
                    lastRender, lastFlush, handles, ops, restarts >>

\* a lock that does not wait for its holder
lock_pipelines_nowait(t) ==
    /\ pc[t] = "lock"
    /\ mutex' = t
    /\ pc' = [pc EXCEPT ![t] = "push"]
    /\ UNCHANGED << state, newResult, pipeline_cache, cacheFile, spvFiles,
                    pipelines, loc, last, done, lastRender, lastFlush,
                    handles, ops, restarts >>

\* self.pipelines.lock().unwrap()
lock_pipelines(t) ==
    /\ pc[t] = "lock"
    /\ mutex = NoThread
    /\ mutex' = t
    /\ pc' = [pc EXCEPT ![t] = "push"]
    /\ UNCHANGED << state, newResult, pipeline_cache, cacheFile, spvFiles,
                    pipelines, loc, last, done, lastRender, lastFlush,
                    handles, ops, restarts >>

\* a pool that keeps one pipeline for equal bytecode
push_pipeline_dedup(t) ==
    /\ pc[t] = "push"
    /\ pipelines' = IF \E i \in 1..Len(pipelines) : pipelines[i] = loc[t].spv
                    THEN pipelines
                    ELSE Append(pipelines, loc[t].spv)
    /\ loc' = [loc EXCEPT ![t].slot =
                 (CHOOSE i \in 1..Len(pipelines') : pipelines'[i] = loc[t].spv) - 1]
    /\ pc' = [pc EXCEPT ![t] = "index"]
    /\ UNCHANGED << state, newResult, pipeline_cache, cacheFile, spvFiles,
                    mutex, last, done, lastRender, lastFlush, handles,
                    ops, restarts >>

\* a push that lets go of the lock before the index is taken
push_pipeline_unlock(t) ==
    /\ pc[t] = "push"
    /\ pipelines' = Append(pipelines, loc[t].spv)
    /\ loc' = [loc EXCEPT ![t].slot = Len(pipelines)]
    /\ mutex' = NoThread
    /\ pc' = [pc EXCEPT ![t] = "index"]
    /\ UNCHANGED << state, newResult, pipeline_cache, cacheFile, spvFiles,
                    last, done, lastRender, lastFlush, handles, ops, restarts >>

\* a push at the front of the vector
push_pipeline_front(t) ==
    /\ pc[t] = "push"
    /\ pipelines' = << loc[t].spv >> \o pipelines
    /\ loc' = [loc EXCEPT ![t].slot = 0]
    /\ pc' = [pc EXCEPT ![t] = "index"]
    /\ UNCHANGED << state, newResult, pipeline_cache, cacheFile, spvFiles,
                    mutex, last, done, lastRender, lastFlush, handles,
                    ops, restarts >>

\* pipelines.push(pipeline), under the guard
push_pipeline(t) ==
    /\ pc[t] = "push"
    /\ pipelines' = Append(pipelines, loc[t].spv)
    /\ loc' = [loc EXCEPT ![t].slot = Len(pipelines)]
    /\ pc' = [pc EXCEPT ![t] = "index"]
    /\ UNCHANGED << state, newResult, pipeline_cache, cacheFile, spvFiles,
                    mutex, last, done, lastRender, lastFlush, handles,
                    ops, restarts >>

\* Ok(pipelines.len() - 1); the guard is dropped
return_index(t) ==
    /\ pc[t] = "index"
    /\ mutex' = IF mutex = t THEN NoThread ELSE mutex
    /\ handles' = Append(handles, PushedIndex(pipelines))
    /\ Return(t, [loc[t] EXCEPT !.outcome = "Ok",
                                !.handle = PushedIndex(pipelines)],
              spvFiles, pipelines)
    /\ UNCHANGED << state, newResult, pipeline_cache, cacheFile, spvFiles,
                    pipelines, lastRender, lastFlush, ops, restarts >>

\* ---------------------------------------------------------- render_frame
\* &mut self: no other call is in progress. The body is todo!().
render_frame(t, handle) ==
    /\ state = "Ready"
    /\ pc[t] = "idle"
    /\ Quiet
    /\ ops < MaxOps
    /\ ops' = ops + 1
    /\ lastRender' = [handle |-> handle, outcome |-> RenderOutcome(handle, pipelines),
                      poolBefore |-> pipelines]
    /\ pc' = [pc EXCEPT ![t] = "panicked"]
    /\ UNCHANGED << state, newResult, pipeline_cache, cacheFile, spvFiles,
                    pipelines, mutex, loc, last, done, lastFlush, handles,
                    restarts >>

\* -------------------------------------------------- write_pipeline_cache
\* get_pipeline_cache_data(...).unwrap(); the write to happy_cache.cache is
\* commented out
write_pipeline_cache(t) ==
    /\ state = "Ready"
    /\ pc[t] = "idle"
    /\ ops < MaxOps
    /\ ops' = ops + 1
    /\ \E ok \in BOOLEAN :
         IF ok
         THEN /\ lastFlush' = [outcome |-> "Ok", data |-> pipeline_cache, run |-> restarts]
              /\ cacheFile' = FlushedFile(cacheFile, pipeline_cache)
              /\ UNCHANGED pc
         ELSE /\ lastFlush' = [outcome |-> "Panic", data |-> EmptyBlob, run |-> restarts]
              /\ pc' = [pc EXCEPT ![t] = "panicked"]
              /\ UNCHANGED cacheFile
    /\ UNCHANGED << state, newResult, pipeline_cache, spvFiles, pipelines,
                    mutex, loc, last, done, lastRender, handles, restarts >>

\* ------------------------------------------------------------ next state
Step(t) ==
    \/ spirv_path_exists(t)
    \/ read_cached_spirv(t)
    \/ compile_source(t)
    \/ fs_write_create(t)
    \/ fs_write_all(t)
    \/ create_shader_module(t)
    \/ create_graphics_pipeline(t)
    \/ lock_pipelines(t)
    \/ push_pipeline(t)
    \/ return_index(t)

\* handles in range, and the first two out of range
RenderHandles == 0 .. (Len(pipelines) + 1)

\* calls issued one after another by one thread
Next ==
    \/ GfxBackend_new
    \/ Restart
    \/ \E k \in Keys, s \in Sources : new_pipeline(MainThread, k, s)
    \/ Step(MainThread)
    \/ \E h \in RenderHandles : render_frame(MainThread, h)
    \/ write_pipeline_cache(MainThread)

Spec == Init /\ [][Next]_vars

\* calls from any thread, interleaved at every step, within one run of the
\* process
ConcNext ==
    \/ GfxBackend_new
    \/ \E t \in Threads, k \in Keys, s \in Sources :
          ops < MaxConcOps /\ new_pipeline(t, k, s)
    \/ \E t \in Threads : Step(t)
    \/ \E t \in Threads, h \in RenderHandles :
          ops < MaxConcOps /\ render_frame(t, h)
    \/ \E t \in Threads : ops < MaxConcOps /\ write_pipeline_cache(t)

\* several callers start from a working pipeline cache file and from cache
\* files that are absent or were written by an earlier run
ConcInit ==
    /\ Init
    /\ cacheFile = CacheOf(EmptyBlob)
    /\ \A k \in Keys : spvFiles[k] \in
          {NoFile, FileOf(as_binary_u8(compile_into_spirv("red_src").words))}

ConcSpec == ConcInit /\ [][ConcNext]_vars

\* ================================================================ claims
DeviceErrors == {"ModuleError", "PipelineError"}
Errors == {"CompileError"} \cup DeviceErrors

\* C1: after N calls that returned Ok the pool holds N pipelines and the
\* handles returned are 0, 1, ..., N-1 in call order, whatever calls failed
\* in between. A call that has pushed and not yet returned is counted apart.
C1_HandlesCountPool ==
    /\ Len(pipelines) =
         Len(handles) + Cardinality({t \in Threads : pc[t] = "index"})
    /\ \A i \in 1..Len(handles) : handles[i] = i - 1

C1_Witness ==
    /\ handles = << 0, 1 >>
    /\ last.outcome \in Errors
    /\ last.lenBefore = 2

\* C2: a call that directly follows an Ok call with the same key and source
\* does not invoke the compiler and uses the bytecode of the first call, as
\* read from the cache file of the key.
C2_SecondCallReadsCache ==
    last.again =>
        /\ last.outcome # "Panic"
        /\ last.hit
        /\ ~last.compiled
        /\ last.spv = last.prevSpv
        /\ last.fileAfter.readable
        /\ read_spirv(last.fileAfter.bytes) = [ok |-> TRUE, words |-> last.prevSpv]

C2_Witness ==
    /\ last.again
    /\ last.prevCompiled
    /\ last.outcome = "Ok"
    /\ last.spv = compile_into_spirv(last.src).words

C4_NoDeduplication ==
    (last.seen # {}) =>
        /\ last.outcome \in {"Ok"} \cup DeviceErrors
        /\ last.hit /\ ~last.compiled
        /\ last.outcome # "ModuleError" /\ last.outcome # "PipelineError" =>
              /\ last.seen = {last.spv}
              /\ last.handle = last.lenBefore
              /\ last.lenAfter = last.lenBefore + 1
              /\ \A i \in 1..(Len(handles) - 1) : handles[i] # last.handle

C4_Witness ==
    /\ last.seen # {}
    /\ ~last.again
    /\ last.outcome = "Ok"
    /\ last.handle = 2
    /\ handles = << 0, 1, 2 >>

\* C5: render_frame with a handle that an Ok call returned completes (the
\* frame is presented) and leaves the pool as it was.
C5_RenderValidHandleSucceeds ==
    (lastRender.outcome # "None"
       /\ lastRender.handle < Len(lastRender.poolBefore)) =>
        /\ lastRender.outcome = "Presented"
        /\ pipelines = lastRender.poolBefore
        /\ pc[MainThread] # "panicked"

\* C6: render_frame ends in the fatal InvalidHandle condition exactly when
\* its handle is out of range for the pool.
C6_RenderInvalidHandleFatal ==
    (lastRender.outcome # "None") =>
        (lastRender.outcome = "InvalidHandle"
           <=> lastRender.handle >= Len(lastRender.poolBefore))

\* C7: construction reaches Ready with an empty pipeline cache blob when
\* happy_cache.cache is absent or unreadable (the device substrate working).
C7_ColdStartSucceeds ==
    (newResult.outcome \notin {"None", "PanicSubstrate"}
       /\ ~(cacheFile.exists /\ cacheFile.readable)) =>
        /\ state = "Ready"
        /\ newResult.outcome = "Ready"
        /\ newResult.data = EmptyBlob

\* C8: write_pipeline_cache writes the blob of the device to
\* happy_cache.cache, so the backend constructed after a restart starts
\* from the blob of the last flush, non-empty once a pipeline was created.
C8_FlushPersistsCache ==
    /\ (lastFlush.outcome = "Ok" /\ lastFlush.run = restarts) =>
           cacheFile = CacheOf(lastFlush.data)
    /\ (lastFlush.outcome = "Ok" /\ lastFlush.run + 1 = restarts
          /\ newResult.outcome = "Ready") =>
           newResult.data = lastFlush.data

\* C9: when the compiler succeeds and the write of the cache file fails,
\* the call does not abort: it goes on with the compiled bytecode to the
\* result of the device steps.
C9_WriteFailureNotFatal ==
    last.wfail =>
        /\ last.outcome \in {"Ok"} \cup DeviceErrors
        /\ last.spv = compile_into_spirv(last.src).words

\* C10: when the cache file of the key exists and cannot be read or parsed,
\* the call compiles the source instead of terminating.
C10_UnreadableCacheRecompiles ==
    (last.outcome # "None" /\ last.fileBefore.exists
       /\ ~(last.fileBefore.readable /\ read_spirv(last.fileBefore.bytes).ok)) =>
        /\ last.outcome # "Panic"
        /\ last.compiled

C12_HandlesUnderInterleaving ==
    /\ \A i \in 1..Len(handles) : handles[i] = i - 1
    /\ \A i \in 1..Len(handles), j \in 1..Len(handles) :
           handles[i] = handles[j] => i = j
    /\ (last.outcome = "Ok") =>
           /\ last.handle = last.slot
           /\ last.handle = Len(handles) - 1
           /\ last.handle + 1 \in 1..Len(pipelines)
           /\ pipelines[last.handle + 1] = last.spv

C12_Witness ==
    /\ handles = << 0, 1 >>
    /\ last.outcome = "Ok"
    /\ last.lenBefore = 0
    /\ last.handle = 1
    /\ pipelines[1] # pipelines[2]

\* C13: the pool is append-only: no step of any operation shortens it or
\* changes the pipeline at an index already there.
C13_PoolAppendOnly ==
    [][ /\ Len(pipelines') >= Len(pipelines)
        /\ \A i \in 1..Len(pipelines) : pipelines'[i] = pipelines[i] ]_vars

C13_Witness ==
    /\ Len(pipelines) = 2
    /\ pipelines[1] # pipelines[2]
    /\ last.outcome \in {"Ok"}
    /\ Quiet

\* C14: when the device rejects the shader module or the pipeline, the
\* call returns an error value, the pool keeps its length, no handle is
\* handed out, and the next Ok call gets the next unused index.
C14_DeviceErrorKeepsPool ==
    /\ last.devfail =>
           /\ last.outcome \in DeviceErrors
           /\ last.handle = -1
           /\ last.lenAfter = last.lenBefore
           /\ Len(handles) = last.lenBefore
    /\ (last.afterError /\ last.outcome = "Ok") =>
           /\ last.handle = last.lenBefore
           /\ last.handle = Len(handles) - 1

C14_Witness ==
    /\ last.afterError
    /\ last.outcome = "Ok"
    /\ last.handle = 1
    /\ handles = << 0, 1 >>

\* C15: whenever the cache file of the key exists, a call with any source
\* takes its bytecode from the file, does not invoke the compiler, leaves
\* the file as it was and goes on to build the pipeline.
C15_ExistingFileTrusted ==
    (last.outcome # "None" /\ last.fileBefore.exists) =>
        /\ last.hit
        /\ ~last.compiled
        /\ last.fileAfter = last.fileBefore
        /\ last.outcome \in {"Ok"} \cup DeviceErrors
        /\ read_spirv(last.fileBefore.bytes) = [ok |-> TRUE, words |-> last.spv]

\* C16: happy_cache.cache changes in no step other than a flush: not in a
\* new_pipeline call, a render_frame call or the construction.
C16_CacheFileOnlyByFlush ==
    [][ (cacheFile' # cacheFile) =>
            (lastFlush' # lastFlush /\ lastFlush'.outcome = "Ok") ]_vars

C16_Witness ==
    /\ lastFlush.outcome = "Ok"
    /\ lastFlush.run = restarts
    /\ Len(pipelines) > 0
    /\ pipeline_cache # newResult.data
    /\ cacheFile.data = newResult.data

\* C17: calls on two different keys that overlap do not interfere: a call
\* that compiled leaves the file of its key with the bytecode of its own
\* source, a call that hit leaves it as it was, a file changes only while a
\* call on its key is writing it, and the handles are pairwise distinct.
C17_DifferentKeysIndependent ==
    /\ [] /\ (last.overlapOther /\ ~last.overlapSame
               /\ last.outcome \in {"Ok"} \cup DeviceErrors) =>
               /\ last.compiled =>
                    /\ last.spv = compile_into_spirv(last.src).words
                    /\ last.fileAfter = FileOf(as_binary_u8(last.spv))
               /\ last.hit =>
                    /\ last.fileAfter = last.fileBefore
                    /\ read_spirv(last.fileBefore.bytes).words = last.spv
          /\ \A i \in 1..Len(handles), j \in 1..Len(handles) :
               handles[i] = handles[j] => i = j
    /\ [][ \A k \in Keys :
             (spvFiles'[k] # spvFiles[k]) =>
                 \E t \in Threads :
                     /\ loc[t].key = k
                     /\ pc[t] \in {"create", "write"}
                     /\ pc'[t] # pc[t] ]_vars

C17_Witness ==
    /\ last.overlapOther
    /\ ~last.overlapSame
    /\ last.compiled
    /\ last.outcome = "Ok"
    /\ last.handle = 1
    /\ ~last.fileBefore.exists
    /\ \A k \in Keys : spvFiles[k].exists
    /\ spvFiles["red.frag"] # spvFiles["blue.frag"]

\* C18: a call that takes the cache-hit branch never reads the file while
\* another call is between creating it and finishing its write.
C18_HitReadsCompleteFile ==
    /\ ~last.torn
    /\ \A t \in Threads : ~loc[t].torn

\* C19: on a miss the file is written before the device steps: when the
\* device then rejects the module or the pipeline the file holds the
\* compiled bytecode, and a retry with the key hits the file without
\* invoking the compiler.
C19_FilePersistedBeforeDevice ==
    /\ (last.compiled /\ last.devfail) =>
           /\ last.wrote
           /\ last.fileAfter =
                FileOf(as_binary_u8(compile_into_spirv(last.src).words))
    /\ last.retry =>
           /\ last.hit
           /\ ~last.compiled
           /\ last.outcome # "Panic"
           /\ last.spv = last.retrySpv

C19_Witness ==
    /\ last.retry
    /\ last.outcome = "Ok"
    /\ last.spv = last.retrySpv
    /\ last.fileBefore.exists
    /\ last.handle = 0

\* C20: every call ends by returning a handle or an error, and the lock is
\* held by a thread at the append only.
C20_EveryCallReturns ==
    /\ last.outcome \in {"None", "Ok"} \cup Errors
    /\ \A t \in Threads : mutex = t => pc[t] \in {"push", "index"}

====
